---------------------------- MODULE Spec2Model ----------------------------
(***************************************************************************)
(* Model of multi_agent_refactor.py: a four-stage pipeline (Analyze,       *)
(* Refactor, Document, Review) over the Python files of a folder.  Every   *)
(* stage reads each file, sends one prompt to the generation service and   *)
(* either stores the decoded reply (Analyze, Review) or overwrites the    *)
(* file with the reply (Refactor, Document).                               *)
(*                                                                         *)
(* Texts (file names, file contents, replies) are sequences of one-        *)
(* character strings, so that suffix tests, newline translation and JSON   *)
(* decoding are computed character by character as Python computes them.   *)
(*                                                                         *)
(* The generation service is the environment: each call either fails (the  *)
(* client raises) or returns one of a few replies chosen to exercise the   *)
(* decoder and the newline translation.  Outside the model: a read or a    *)
(* write that fails in the operating system, and JSON syntax that the      *)
(* replies of the model do not use (floats, escapes, non-ASCII text).      *)
(***************************************************************************)
EXTENDS Integers, Sequences, FiniteSets, TLC

(***************************************************************************)
(* Bounds of the model.                                                    *)
(***************************************************************************)
\* At most this many ".py" files in the folder.
MaxFiles == 2

\* At most this many paths in a list handed directly to one stage function.
MaxList == 3

(***************************************************************************)
(* Characters.                                                             *)
(***************************************************************************)
LF == "\n"
CR == "\r"
QUOTE == "\""

Digits == {"0", "1", "2", "3", "4", "5", "6", "7", "8", "9"}

\* json.decoder WHITESPACE: " \t\n\r"
Whitespace == {" ", "\t", LF, CR}

DigitValue(c) ==
    CASE c = "0" -> 0 [] c = "1" -> 1 [] c = "2" -> 2 [] c = "3" -> 3
      [] c = "4" -> 4 [] c = "5" -> 5 [] c = "6" -> 6 [] c = "7" -> 7
      [] c = "8" -> 8 [] c = "9" -> 9

(***************************************************************************)
(* Text-mode file I/O.  open(path, "w") and open(path, "r") are called     *)
(* without a newline argument, so Python translates line endings: on       *)
(* writing every "\n" becomes os.linesep, on reading "\r\n" and a lone     *)
(* "\r" both become "\n" (universal newlines).                             *)
(***************************************************************************)
\* os.linesep of the two platform families Python runs on.
PosixLinesep == <<LF>>
WindowsLinesep == <<CR, LF>>
Lineseps == {PosixLinesep, WindowsLinesep}

RECURSIVE TranslateOnWrite(_, _)
TranslateOnWrite(text, sep) ==
    IF text = <<>> THEN <<>>
    ELSE (IF Head(text) = LF THEN sep ELSE <<Head(text)>>)
         \o TranslateOnWrite(Tail(text), sep)

RECURSIVE TranslateOnRead(_)
TranslateOnRead(stored) ==
    IF stored = <<>> THEN <<>>
    ELSE IF Head(stored) = CR
         THEN IF Len(stored) >= 2 /\ stored[2] = LF
              THEN <<LF>> \o TranslateOnRead(Tail(Tail(stored)))
              ELSE <<LF>> \o TranslateOnRead(Tail(stored))
         ELSE <<Head(stored)>> \o TranslateOnRead(Tail(stored))

\* read_file(path): the text a read of the stored characters returns.
read_file(stored) == TranslateOnRead(stored)

\* write_file(path, content): the characters stored by the write.
write_file(content, sep) == TranslateOnWrite(content, sep)

(***************************************************************************)
(* list_python_files: file.endswith(".py").                                *)
(***************************************************************************)
PySuffix == <<".", "p", "y">>

endswith(name, suffix) ==
    /\ Len(name) >= Len(suffix)
    /\ SubSeq(name, Len(name) - Len(suffix) + 1, Len(name)) = suffix


(***************************************************************************)
(* JSON values, as json.loads builds them: int, str, list, dict and the    *)
(* three literals.  A dict is a function from its keys to its values, so   *)
(* that two dicts are equal exactly when Python's == says so.              *)
(***************************************************************************)
JNull == [type |-> "NoneType", value |-> <<>>]
JBool(b) == [type |-> "bool", value |-> <<b>>]
JInt(n) == [type |-> "int", value |-> n]
JStr(chars) == [type |-> "str", value |-> chars]
JList(items) == [type |-> "list", value |-> items]
JDict(map) == [type |-> "dict", value |-> map]

EmptyMap == [k \in {} |-> JNull]

\* d[key] = val on a Python dict: the last assignment to a key wins.
SetItem(map, key, val) == (key :> val) @@ map

(***************************************************************************)
(* json.loads(s).  The decoder follows json.decoder / json.scanner:        *)
(* leading whitespace is skipped, one value is scanned, trailing           *)
(* whitespace is skipped and anything left over is "Extra data".  Numbers  *)
(* are the integers of NUMBER_RE (no fraction, no exponent); strings have  *)
(* no escapes; a control character inside a string is an error (strict).   *)
(***************************************************************************)
ParseError == [ok |-> FALSE, val |-> JNull, end |-> 0]
Parsed(val, end) == [ok |-> TRUE, val |-> val, end |-> end]

\* First index >= idx whose character is not whitespace (Len(s)+1 if none).
RECURSIVE SkipWhitespace(_, _)
SkipWhitespace(s, idx) ==
    IF idx <= Len(s) /\ s[idx] \in Whitespace
    THEN SkipWhitespace(s, idx + 1)
    ELSE idx

StartsWithAt(s, idx, word) ==
    /\ idx + Len(word) - 1 <= Len(s)
    /\ SubSeq(s, idx, idx + Len(word) - 1) = word

\* Digits from idx on: [val, end] with end the first index after them.
RECURSIVE ScanDigits(_, _, _)
ScanDigits(s, idx, acc) ==
    IF idx <= Len(s) /\ s[idx] \in Digits
    THEN ScanDigits(s, idx + 1, acc * 10 + DigitValue(s[idx]))
    ELSE [val |-> acc, end |-> idx]

\* NUMBER_RE integer part: -?(0|[1-9]\d*)
ParseNumber(s, idx) ==
    LET neg == idx <= Len(s) /\ s[idx] = "-"
        i0 == IF neg THEN idx + 1 ELSE idx
    IN  IF i0 > Len(s) \/ s[i0] \notin Digits THEN ParseError
        ELSE IF s[i0] = "0"
             THEN Parsed(JInt(0), i0 + 1)
             ELSE LET d == ScanDigits(s, i0, 0)
                  IN  Parsed(JInt(IF neg THEN 0 - d.val ELSE d.val), d.end)

\* py_scanstring from the character after the opening quote.
RECURSIVE ScanString(_, _, _)
ScanString(s, idx, acc) ==
    IF idx > Len(s) THEN ParseError
    ELSE IF s[idx] = QUOTE THEN Parsed(JStr(acc), idx + 1)
    ELSE IF s[idx] \in {LF, CR, "\t", "\\"} THEN ParseError
    ELSE ScanString(s, idx + 1, Append(acc, s[idx]))

RECURSIVE ScanOnce(_, _)
RECURSIVE ParseArrayItems(_, _, _)
RECURSIVE ParseObjectPairs(_, _, _)

\* JSONArray after "[" and one parsed item: "," value ... "]".
ParseArrayItems(s, idx, items) ==
    LET v == ScanOnce(s, SkipWhitespace(s, idx))
    IN  IF ~v.ok THEN ParseError
        ELSE LET j == SkipWhitespace(s, v.end)
                 got == Append(items, v.val)
             IN  IF j > Len(s) THEN ParseError
                 ELSE IF s[j] = "]" THEN Parsed(JList(got), j + 1)
                 ELSE IF s[j] = "," THEN ParseArrayItems(s, j + 1, got)
                 ELSE ParseError

\* JSONObject: "key" : value, then "," or "}".
ParseObjectPairs(s, idx, pairs) ==
    LET k0 == SkipWhitespace(s, idx)
    IN  IF k0 > Len(s) \/ s[k0] # QUOTE THEN ParseError
        ELSE LET key == ScanString(s, k0 + 1, <<>>)
             IN  IF ~key.ok THEN ParseError
                 ELSE LET c == SkipWhitespace(s, key.end)
                      IN  IF c > Len(s) \/ s[c] # ":" THEN ParseError
                          ELSE LET v == ScanOnce(s, SkipWhitespace(s, c + 1))
                               IN  IF ~v.ok THEN ParseError
                                   ELSE LET j == SkipWhitespace(s, v.end)
                                            got == SetItem(pairs, key.val.value, v.val)
                                        IN  IF j > Len(s) THEN ParseError
                                            ELSE IF s[j] = "}" THEN Parsed(JDict(got), j + 1)
                                            ELSE IF s[j] = "," THEN ParseObjectPairs(s, j + 1, got)
                                            ELSE ParseError

\* json.scanner py_make_scanner._scan_once
ScanOnce(s, idx) ==
    IF idx > Len(s) THEN ParseError
    ELSE IF s[idx] = QUOTE THEN ScanString(s, idx + 1, <<>>)
    ELSE IF s[idx] = "{"
         THEN LET j == SkipWhitespace(s, idx + 1)
              IN  IF j <= Len(s) /\ s[j] = "}" THEN Parsed(JDict(EmptyMap), j + 1)
                  ELSE ParseObjectPairs(s, idx + 1, EmptyMap)
    ELSE IF s[idx] = "["
         THEN LET j == SkipWhitespace(s, idx + 1)
              IN  IF j <= Len(s) /\ s[j] = "]" THEN Parsed(JList(<<>>), j + 1)
                  ELSE ParseArrayItems(s, idx + 1, <<>>)
    ELSE IF StartsWithAt(s, idx, <<"n", "u", "l", "l">>) THEN Parsed(JNull, idx + 4)
    ELSE IF StartsWithAt(s, idx, <<"t", "r", "u", "e">>) THEN Parsed(JBool(TRUE), idx + 4)
    ELSE IF StartsWithAt(s, idx, <<"f", "a", "l", "s", "e">>) THEN Parsed(JBool(FALSE), idx + 5)
    ELSE ParseNumber(s, idx)

\* json.loads(s): [ok, val]; ok = FALSE stands for the raised JSONDecodeError.
json_loads(s) ==
    LET v == ScanOnce(s, SkipWhitespace(s, 1))
    IN  IF v.ok /\ SkipWhitespace(s, v.end) > Len(s)
        THEN [ok |-> TRUE, val |-> v.val]
        ELSE [ok |-> FALSE, val |-> JNull]


(***************************************************************************)
(* Fallback records of the two decoding stages.                            *)
(***************************************************************************)
KeyIssues == <<"i", "s", "s", "u", "e", "s">>
KeyRaw == <<"r", "a", "w">>
KeyScore == <<"s", "c", "o", "r", "e">>
KeyProblems == <<"p", "r", "o", "b", "l", "e", "m", "s">>
KeySuggestions == <<"s", "u", "g", "g", "e", "s", "t", "i", "o", "n", "s">>

\* "Unable to parse AI output"
AnalyzerMarker ==
    <<"U", "n", "a", "b", "l", "e", " ", "t", "o", " ", "p", "a", "r", "s", "e", " ", "A", "I", " ", "o", "u", "t", "p", "u", "t">>

\* "Parsing error"
ReviewerMarker == <<"P", "a", "r", "s", "i", "n", "g", " ", "e", "r", "r", "o", "r">>

\* A fallback that keeps the reply with its line endings normalised.
AnalyzerFallbackNormalised(result) ==
    JDict(SetItem(SetItem(EmptyMap, KeyIssues, JList(<<JStr(AnalyzerMarker)>>)),
                  KeyRaw, JStr(TranslateOnRead(result))))

\* {"issues": ["Unable to parse AI output"], "raw": result}
AnalyzerFallback(result) ==
    JDict(SetItem(SetItem(EmptyMap, KeyIssues, JList(<<JStr(AnalyzerMarker)>>)),
                  KeyRaw, JStr(result)))

\* {"score": 0, "problems": ["Parsing error"], "raw": result}
ReviewerFallback(result) ==
    JDict(SetItem(SetItem(SetItem(EmptyMap, KeyScore, JInt(0)),
                          KeyProblems, JList(<<JStr(ReviewerMarker)>>)),
                  KeyRaw, JStr(result)))

\* try: result_json = json.loads(result)   except: result_json = fallback
TryDecode(result, fallback) ==
    LET decoded == json_loads(result)
    IN  IF decoded.ok THEN decoded.val ELSE fallback

\* analysis.get(file): a missing key yields None instead of raising.
dict_get(map, key) ==
    IF key \in DOMAIN map
    THEN [raised |-> FALSE, val |-> map[key]]
    ELSE [raised |-> FALSE, val |-> JNull]

\* analysis[file]: a missing key raises KeyError.
dict_getitem(map, key) ==
    IF key \in DOMAIN map
    THEN [raised |-> FALSE, val |-> map[key]]
    ELSE [raised |-> TRUE, val |-> JNull]

(***************************************************************************)
(* The folder and the generation service.                                  *)
(***************************************************************************)
PyLetters == <<"a", "b", "c", "d">>
PyName(k) == <<PyLetters[k]>> \o PySuffix

\* The file of the folder that is not a Python source: "a.pyc".
OtherNames == {<<"a", ".", "p", "y", "c">>}

FolderNames(npy) == {PyName(k) : k \in 1..npy} \cup OtherNames

\* The folder a stage function called on its own works in: "a.py", "a.pyc".
StageCallFolder == {PyName(1)} \cup OtherNames

\* What a file holds before the run: "#<name>\n".
InitialText(name) == <<"#">> \o name \o <<LF>>

\* Replies of the generation service:
\*   a JSON object of the shape the review prompt asks for,
\*   valid JSON that is not an object: "7\n",
\*   text that is not JSON and has a Windows line ending: "x\r\ny".
\* {"score":7,"problems":["x"],"suggestions":[]}
ReplyDict ==
    <<"{", QUOTE, "s", "c", "o", "r", "e", QUOTE, ":", "7", ",">>
    \o <<QUOTE, "p", "r", "o", "b", "l", "e", "m", "s", QUOTE, ":", "[", QUOTE, "x", QUOTE, "]", ",">>
    \o <<QUOTE, "s", "u", "g", "g", "e", "s", "t", "i", "o", "n", "s", QUOTE, ":", "[", "]", "}">>
ReplyNumber == <<"7", LF>>
ReplyText == <<"x", CR, LF, "y">>
Replies == {ReplyDict, ReplyNumber, ReplyText}

Stages == {"analyze", "refactor", "document", "review"}

\* The system-role message of each stage's call_agent.
Persona(stage) ==
    CASE stage = "analyze" -> "You are a Code Analysis Agent."
      [] stage = "refactor" -> "You are a Senior Refactor Engineer."
      [] stage = "document" -> "You are a Documentation Agent."
      [] stage = "review" -> "You are a Code Review Agent."

\* The replies tried at each stage: JSON and non-JSON for the decoding
\* stages, text with "\n" and with "\r\n" line endings for the writing ones.
StageReplies(stage) ==
    CASE stage = "analyze" -> {ReplyDict, ReplyText}
      [] stage = "refactor" -> {ReplyNumber, ReplyText}
      [] stage = "document" -> {ReplyNumber, ReplyText}
      [] stage = "review" -> Replies

\* A wrong order of calls: add_documentation before refactor_files.
NextStageDocumentFirst(stage) ==
    CASE stage = "enumerate" -> "analyze"
      [] stage = "analyze" -> "document"
      [] stage = "document" -> "refactor"
      [] stage = "refactor" -> "review"
      [] stage = "review" -> "report"
      [] stage = "report" -> "done"

\* run_pipeline's order of calls.
NextStage(stage) ==
    CASE stage = "enumerate" -> "analyze"
      [] stage = "analyze" -> "refactor"
      [] stage = "refactor" -> "document"
      [] stage = "document" -> "review"
      [] stage = "review" -> "report"
      [] stage = "report" -> "done"

\* All orders in which os.walk may yield the members of a set.
RECURSIVE Orderings(_)
Orderings(S) ==
    IF S = {} THEN {<<>>}
    ELSE UNION {{<<x>> \o rest : rest \in Orderings(S \ {x})} : x \in S}

\* Every list of at most n paths (repetitions allowed).
ListsOver(S, n) == UNION {[1..k -> S] : k \in 0..n}

\* An enumeration that tests for ".py" anywhere in the name.
list_files_containing_py(names) ==
    {name \in names :
        \E k \in 1..Len(name) : StartsWithAt(name, k, PySuffix)}

\* list_python_files: the names that pass file.endswith(".py").
list_python_files(names) == {name \in names : endswith(name, PySuffix)}

\* A loop that stops one element early.
LoopDoneOneEarly(idx, list) == idx >= Len(list)

\* for file in files: the loop is over when every index was visited.
LoopDone(idx, list) == idx > Len(list)

\* A write that lands in the compiled sibling of the path ("a.py" -> "a.pyc").
DiskAfterWriteToSibling(d, path, content, sep) ==
    ((path \o <<"c">>) :> write_file(content, sep)) @@ d

\* open(path, "w") ... f.write(content): the file at path is replaced.
DiskAfterWrite(d, path, content, sep) ==
    (path :> write_file(content, sep)) @@ d


(***************************************************************************)
(* State.                                                                  *)
(***************************************************************************)
VARIABLES
    linesep,      \* os.linesep of the platform the script runs on
    disk,         \* path -> the characters stored in the file
    mode,         \* the function the caller invoked: "pipeline" (run_pipeline)
                  \* or one stage function called on its own
    pc,           \* the statement run_pipeline / the stage function is at
    files,        \* the list of paths the stages iterate over
    idx,          \* position in files of the next file of the running loop
    all_issues,   \* analyze_codebase's local dict
    analysis,     \* run_pipeline's analysis / refactor_files' argument
    all_reviews,  \* reviewer_check's local dict
    review,       \* run_pipeline's review
    printed,      \* the review reports printed by run_pipeline
    err,          \* the exception that ended the run, "none" if none
    sent,         \* the (system, user) messages of the last call_agent
    log,          \* history: every read, generation call and write, in order
    lastReply,    \* history: path -> stage and text of its last reply
    lastRead,     \* history: path -> stage and text of its last read, and
                  \*          what had last been written to it at that time
    written,      \* history: path -> stage and text of its last write_file
    stageStart    \* history: disk when the running stage began

vars == <<linesep, disk, mode, pc, files, idx, all_issues, analysis,
          all_reviews, review, printed, err, sent, log, lastReply, lastRead,
          written, stageStart>>

Modes == {"pipeline"} \cup Stages

NoText == [stage |-> "none", text |-> <<>>]
NoRead == [stage |-> "none", text |-> <<>>, prior |-> NoText]
NoPrompt == [system |-> "", content |-> <<>>, issues |-> <<>>]

Event(stage, file, op) == [stage |-> stage, file |-> file, op |-> op]

\* The analysis mappings handed to a direct call of refactor_files: an
\* entry for every path of the folder, or for all but one.
AnalysisArguments(names) ==
    {[f \in names \ skip |-> JDict(EmptyMap)] :
        skip \in {{}} \cup {{f} : f \in names}}

Init ==
    /\ linesep \in Lineseps
    /\ mode \in Modes
    /\ IF mode = "pipeline"
       THEN \E npy \in 0..MaxFiles :
                disk = [f \in FolderNames(npy) |-> write_file(InitialText(f), linesep)]
       ELSE disk = [f \in StageCallFolder |-> write_file(InitialText(f), linesep)]
    /\ IF mode = "pipeline"
       THEN pc = "enumerate" /\ files = <<>>
       ELSE pc = mode /\ files \in ListsOver(DOMAIN disk, MaxList)
    /\ idx = 1
    /\ all_issues = EmptyMap
    /\ IF mode = "refactor"
       THEN analysis \in AnalysisArguments(DOMAIN disk)
       ELSE analysis = EmptyMap
    /\ all_reviews = EmptyMap
    /\ review = EmptyMap
    /\ printed = <<>>
    /\ err = "none"
    /\ sent = NoPrompt
    /\ log = <<>>
    /\ lastReply = [f \in DOMAIN disk |-> NoText]
    /\ lastRead = [f \in DOMAIN disk |-> NoRead]
    /\ written = [f \in DOMAIN disk |-> NoText]
    /\ stageStart = disk

\* A stage function returned: run_pipeline goes on to its next call; a
\* stage called on its own is done.
AfterStage(stage) == IF mode = "pipeline" THEN NextStage(stage) ELSE "done"

Read(stage, file) ==
    [stage |-> stage, text |-> read_file(disk[file]), prior |-> written[file]]

(***************************************************************************)
(* run_pipeline, line 163: files = list_python_files(project_folder).      *)
(***************************************************************************)
Enumerate ==
    /\ pc = "enumerate"
    /\ files' \in Orderings(list_python_files(DOMAIN disk))
    /\ pc' = NextStage("enumerate")
    /\ idx' = 1
    /\ stageStart' = disk
    /\ UNCHANGED <<linesep, disk, mode, all_issues, analysis, all_reviews,
                   review, printed, err, sent, log, lastReply, lastRead,
                   written>>

(***************************************************************************)
(* analyze_codebase: one iteration of the loop.                            *)
(***************************************************************************)
AnalyzeFile ==
    /\ pc = "analyze"
    /\ ~LoopDone(idx, files)
    /\ \E result \in StageReplies("analyze") :
         LET file == files[idx]
             content == read_file(disk[file])
         IN  /\ sent' = [system |-> Persona("analyze"), content |-> content,
                         issues |-> <<>>]
             /\ all_issues' = SetItem(all_issues, file,
                                      TryDecode(result, AnalyzerFallback(result)))
             /\ lastRead' = [lastRead EXCEPT ![file] = Read("analyze", file)]
             /\ lastReply' = [lastReply EXCEPT
                                ![file] = [stage |-> "analyze", text |-> result]]
             /\ log' = log \o <<Event("analyze", file, "read"),
                                Event("analyze", file, "generate")>>
    /\ idx' = idx + 1
    /\ UNCHANGED <<linesep, disk, mode, pc, files, analysis, all_reviews,
                   review, printed, err, written, stageStart>>

\* call_agent raises (transport or service error): nothing catches it.
AnalyzeFail ==
    /\ pc = "analyze"
    /\ ~LoopDone(idx, files)
    /\ LET file == files[idx]
       IN  /\ sent' = [system |-> Persona("analyze"),
                       content |-> read_file(disk[file]), issues |-> <<>>]
           /\ lastRead' = [lastRead EXCEPT ![file] = Read("analyze", file)]
           /\ log' = log \o <<Event("analyze", file, "read"),
                              Event("analyze", file, "generate")>>
    /\ err' = "APIError"
    /\ pc' = "aborted"
    /\ UNCHANGED <<linesep, disk, mode, files, idx, all_issues, analysis,
                   all_reviews, review, printed, lastReply, written,
                   stageStart>>

\* return all_issues
AnalyzeReturn ==
    /\ pc = "analyze"
    /\ LoopDone(idx, files)
    /\ analysis' = all_issues
    /\ pc' = AfterStage("analyze")
    /\ idx' = 1
    /\ stageStart' = disk
    /\ UNCHANGED <<linesep, disk, mode, files, all_issues, all_reviews,
                   review, printed, err, sent, log, lastReply, lastRead,
                   written>>


(***************************************************************************)
(* refactor_files: one iteration of the loop.  The prompt is built before  *)
(* the call, and building it evaluates analysis[file].                     *)
(***************************************************************************)
RefactorFile ==
    /\ pc = "refactor"
    /\ ~LoopDone(idx, files)
    /\ ~dict_getitem(analysis, files[idx]).raised
    /\ \E result \in StageReplies("refactor") :
         LET file == files[idx]
             content == read_file(disk[file])
         IN  /\ sent' = [system |-> Persona("refactor"), content |-> content,
                         issues |-> <<dict_getitem(analysis, file).val>>]
             /\ disk' = DiskAfterWrite(disk, file, result, linesep)
             /\ lastRead' = [lastRead EXCEPT ![file] = Read("refactor", file)]
             /\ lastReply' = [lastReply EXCEPT
                                ![file] = [stage |-> "refactor", text |-> result]]
             /\ written' = [written EXCEPT
                              ![file] = [stage |-> "refactor", text |-> result]]
             /\ log' = log \o <<Event("refactor", file, "read"),
                                Event("refactor", file, "generate"),
                                Event("refactor", file, "write")>>
    /\ idx' = idx + 1
    /\ UNCHANGED <<linesep, mode, pc, files, all_issues, analysis,
                   all_reviews, review, printed, err, stageStart>>

\* analysis[file] raises KeyError: the file was read, nothing was sent.
RefactorKeyError ==
    /\ pc = "refactor"
    /\ ~LoopDone(idx, files)
    /\ dict_getitem(analysis, files[idx]).raised
    /\ LET file == files[idx]
       IN  /\ lastRead' = [lastRead EXCEPT ![file] = Read("refactor", file)]
           /\ log' = Append(log, Event("refactor", file, "read"))
    /\ err' = "KeyError"
    /\ pc' = "aborted"
    /\ UNCHANGED <<linesep, disk, mode, files, idx, all_issues, analysis,
                   all_reviews, review, printed, sent, lastReply, written,
                   stageStart>>

RefactorFail ==
    /\ pc = "refactor"
    /\ ~LoopDone(idx, files)
    /\ ~dict_getitem(analysis, files[idx]).raised
    /\ LET file == files[idx]
       IN  /\ sent' = [system |-> Persona("refactor"),
                       content |-> read_file(disk[file]),
                       issues |-> <<dict_getitem(analysis, file).val>>]
           /\ lastRead' = [lastRead EXCEPT ![file] = Read("refactor", file)]
           /\ log' = log \o <<Event("refactor", file, "read"),
                              Event("refactor", file, "generate")>>
    /\ err' = "APIError"
    /\ pc' = "aborted"
    /\ UNCHANGED <<linesep, disk, mode, files, idx, all_issues, analysis,
                   all_reviews, review, printed, lastReply, written,
                   stageStart>>

RefactorReturn ==
    /\ pc = "refactor"
    /\ LoopDone(idx, files)
    /\ pc' = AfterStage("refactor")
    /\ idx' = 1
    /\ stageStart' = disk
    /\ UNCHANGED <<linesep, disk, mode, files, all_issues, analysis,
                   all_reviews, review, printed, err, sent, log, lastReply,
                   lastRead, written>>

(***************************************************************************)
(* add_documentation: one iteration of the loop.                           *)
(***************************************************************************)
DocumentFile ==
    /\ pc = "document"
    /\ ~LoopDone(idx, files)
    /\ \E updated \in StageReplies("document") :
         LET file == files[idx]
             content == read_file(disk[file])
         IN  /\ sent' = [system |-> Persona("document"), content |-> content,
                         issues |-> <<>>]
             /\ disk' = DiskAfterWrite(disk, file, updated, linesep)
             /\ lastRead' = [lastRead EXCEPT ![file] = Read("document", file)]
             /\ lastReply' = [lastReply EXCEPT
                                ![file] = [stage |-> "document", text |-> updated]]
             /\ written' = [written EXCEPT
                              ![file] = [stage |-> "document", text |-> updated]]
             /\ log' = log \o <<Event("document", file, "read"),
                                Event("document", file, "generate"),
                                Event("document", file, "write")>>
    /\ idx' = idx + 1
    /\ UNCHANGED <<linesep, mode, pc, files, all_issues, analysis,
                   all_reviews, review, printed, err, stageStart>>

DocumentFail ==
    /\ pc = "document"
    /\ ~LoopDone(idx, files)
    /\ LET file == files[idx]
       IN  /\ sent' = [system |-> Persona("document"),
                       content |-> read_file(disk[file]), issues |-> <<>>]
           /\ lastRead' = [lastRead EXCEPT ![file] = Read("document", file)]
           /\ log' = log \o <<Event("document", file, "read"),
                              Event("document", file, "generate")>>
    /\ err' = "APIError"
    /\ pc' = "aborted"
    /\ UNCHANGED <<linesep, disk, mode, files, idx, all_issues, analysis,
                   all_reviews, review, printed, lastReply, written,
                   stageStart>>

DocumentReturn ==
    /\ pc = "document"
    /\ LoopDone(idx, files)
    /\ pc' = AfterStage("document")
    /\ idx' = 1
    /\ stageStart' = disk
    /\ UNCHANGED <<linesep, disk, mode, files, all_issues, analysis,
                   all_reviews, review, printed, err, sent, log, lastReply,
                   lastRead, written>>

(***************************************************************************)
(* reviewer_check: one iteration of the loop.                              *)
(***************************************************************************)
ReviewFile ==
    /\ pc = "review"
    /\ ~LoopDone(idx, files)
    /\ \E result \in StageReplies("review") :
         LET file == files[idx]
             content == read_file(disk[file])
         IN  /\ sent' = [system |-> Persona("review"), content |-> content,
                         issues |-> <<>>]
             /\ all_reviews' = SetItem(all_reviews, file,
                                       TryDecode(result, ReviewerFallback(result)))
             /\ lastRead' = [lastRead EXCEPT ![file] = Read("review", file)]
             /\ lastReply' = [lastReply EXCEPT
                                ![file] = [stage |-> "review", text |-> result]]
             /\ log' = log \o <<Event("review", file, "read"),
                                Event("review", file, "generate")>>
    /\ idx' = idx + 1
    /\ UNCHANGED <<linesep, disk, mode, pc, files, all_issues, analysis,
                   review, printed, err, written, stageStart>>

ReviewFail ==
    /\ pc = "review"
    /\ ~LoopDone(idx, files)
    /\ LET file == files[idx]
       IN  /\ sent' = [system |-> Persona("review"),
                       content |-> read_file(disk[file]), issues |-> <<>>]
           /\ lastRead' = [lastRead EXCEPT ![file] = Read("review", file)]
           /\ log' = log \o <<Event("review", file, "read"),
                              Event("review", file, "generate")>>
    /\ err' = "APIError"
    /\ pc' = "aborted"
    /\ UNCHANGED <<linesep, disk, mode, files, idx, all_issues, analysis,
                   all_reviews, review, printed, lastReply, written,
                   stageStart>>

\* return all_reviews
ReviewReturn ==
    /\ pc = "review"
    /\ LoopDone(idx, files)
    /\ review' = all_reviews
    /\ pc' = AfterStage("review")
    /\ idx' = 1
    /\ stageStart' = disk
    /\ UNCHANGED <<linesep, disk, mode, files, all_issues, analysis,
                   all_reviews, printed, err, sent, log, lastReply, lastRead,
                   written>>

(***************************************************************************)
(* run_pipeline, lines 179-180: print the review.                          *)
(***************************************************************************)
Report ==
    /\ pc = "report"
    /\ printed' = Append(printed, review)
    /\ pc' = NextStage("report")
    /\ UNCHANGED <<linesep, disk, mode, files, idx, all_issues, analysis,
                   all_reviews, review, err, sent, log, lastReply, lastRead,
                   written, stageStart>>

Next ==
    \/ Enumerate
    \/ AnalyzeFile \/ AnalyzeFail \/ AnalyzeReturn
    \/ RefactorFile \/ RefactorKeyError \/ RefactorFail \/ RefactorReturn
    \/ DocumentFile \/ DocumentFail \/ DocumentReturn
    \/ ReviewFile \/ ReviewFail \/ ReviewReturn
    \/ Report

Spec == Init /\ [][Next]_vars


(***************************************************************************)
(* Vocabulary of the properties.                                           *)
(***************************************************************************)
FileSet == {files[k] : k \in 1..Len(files)}

Pipeline == mode = "pipeline"

StageRank(stage) ==
    CASE stage = "analyze" -> 1
      [] stage = "refactor" -> 2
      [] stage = "document" -> 3
      [] stage = "review" -> 4

\* The steps of one stage over a list, file by file in list order.
RECURSIVE StageSchedule(_, _)
StageSchedule(stage, list) ==
    IF list = <<>> THEN <<>>
    ELSE (IF stage \in {"refactor", "document"}
          THEN <<Event(stage, Head(list), "read"),
                 Event(stage, Head(list), "generate"),
                 Event(stage, Head(list), "write")>>
          ELSE <<Event(stage, Head(list), "read"),
                 Event(stage, Head(list), "generate")>>)
         \o StageSchedule(stage, Tail(list))

\* The fully sequential schedule of run_pipeline: every step of Analyze for
\* every file, then every step of Refactor, of Document and of Review.
Schedule(list) ==
    StageSchedule("analyze", list) \o StageSchedule("refactor", list)
    \o StageSchedule("document", list) \o StageSchedule("review", list)

IsPrefix(short, long) ==
    /\ Len(short) <= Len(long)
    /\ short = SubSeq(long, 1, Len(short))

\* The generation calls made so far, in the order they were made.
IsGenerate(event) == event.op = "generate"
GenerationCalls == SelectSeq(log, IsGenerate)

StageOrder == <<"analyze", "refactor", "document", "review">>

\* The stage function has returned its mapping to the caller.
Returned(stage) ==
    \/ mode = stage /\ pc = "done"
    \/ /\ Pipeline
       /\ pc \in {"refactor", "document", "review", "report", "done"}
       /\ StageRank(stage) < (CASE pc = "refactor" -> 2 [] pc = "document" -> 3
                                [] pc = "review" -> 4 [] OTHER -> 5)

\* C1: in run_pipeline the reads, generation calls and writes happen in the
\* order of the fully sequential schedule: nothing before Enumerate, then
\* every step of Analyze for every enumerated file, then Refactor, Document
\* and Review likewise, never a step of one stage between two of another.
\* While a stage is at its idx-th file the log holds all steps of the
\* earlier stages and the steps of this stage for the files before idx; at
\* Report it holds the whole schedule.
C1_StagesRunInOrderWithoutInterleaving ==
    Pipeline =>
        /\ pc = "enumerate" => log = <<>>
        /\ IsPrefix(log, Schedule(files))
        /\ pc = "analyze" => Len(log) = 2 * (idx - 1)
        /\ pc = "refactor" => Len(log) = 2 * Len(files) + 3 * (idx - 1)
        /\ pc = "document" => Len(log) = 5 * Len(files) + 3 * (idx - 1)
        /\ pc = "review" => Len(log) = 8 * Len(files) + 2 * (idx - 1)
        /\ pc \in {"report", "done"} => log = Schedule(files)

\* A full run over two files: all four stages have run and the report is out.
C1_Witness ==
    /\ Pipeline
    /\ pc = "done"
    /\ Len(files) >= 2
    /\ printed # <<>>
    /\ Len(log) = 10 * Len(files)

\* json.loads of each reply of the service, computed once.
Decoded == [text \in Replies |-> json_loads(text)]

\* The entry a decoding stage must hold for a file whose reply was `text`.
IsDecodeOrFallback(entry, text, fallback) ==
    \/ Decoded[text].ok /\ entry = Decoded[text].val
    \/ ~Decoded[text].ok /\ entry = fallback

\* C2: analyze_codebase and reviewer_check, on every list of paths and every
\* sequence of replies: while the loop runs the mapping holds one entry for
\* each path visited so far and no other, each the decode of the path's reply
\* or the fallback record; a reply that does not decode ends nothing (the
\* only error a decoding stage ends with is a failed generation call); the
\* mapping returned has exactly the paths of the list as its keys.
C2_OneEntryPerInputFile ==
    /\ pc = "analyze" =>
           DOMAIN all_issues = {files[k] : k \in 1..(idx - 1)}
    /\ pc = "review" =>
           DOMAIN all_reviews = {files[k] : k \in 1..(idx - 1)}
    /\ \A f \in DOMAIN all_issues :
           lastReply[f].stage = "analyze" =>
               IsDecodeOrFallback(all_issues[f], lastReply[f].text,
                                  AnalyzerFallback(lastReply[f].text))
    /\ \A f \in DOMAIN all_reviews :
           lastReply[f].stage = "review" =>
               IsDecodeOrFallback(all_reviews[f], lastReply[f].text,
                                  ReviewerFallback(lastReply[f].text))
    /\ mode \in {"analyze", "review"} => err \in {"none", "APIError"}
    /\ Returned("analyze") => DOMAIN analysis = FileSet /\ analysis = all_issues
    /\ Returned("review") => DOMAIN review = FileSet /\ review = all_reviews

\* analyze_codebase returned after a reply that does not decode for its first
\* path and one that decodes for a later, different path.
C2_Witness ==
    /\ mode = "analyze"
    /\ pc = "done"
    /\ Len(files) >= 2
    /\ files[1] # files[2]
    /\ lastReply[files[1]].text = ReplyText
    /\ lastReply[files[2]].text = ReplyDict
    /\ analysis[files[1]] = AnalyzerFallback(ReplyText)
    /\ analysis[files[2]].type = "dict"
    /\ DOMAIN analysis = FileSet


\* C3: a reply T that is not valid JSON gives the Analyzer entry
\* {issues: ["Unable to parse AI output"], raw: T} and the Review entry
\* {score: 0, problems: ["Parsing error"], raw: T}, with exactly these keys
\* and with T unchanged under raw; two paths whose replies are the same
\* invalid text hold equal entries.
C3_FallbackIsExactAndDependsOnlyOnReply ==
    /\ \A f \in DOMAIN all_issues :
           (lastReply[f].stage = "analyze" /\ ~Decoded[lastReply[f].text].ok) =>
               /\ all_issues[f].type = "dict"
               /\ DOMAIN all_issues[f].value = {KeyIssues, KeyRaw}
               /\ all_issues[f].value[KeyIssues] = JList(<<JStr(AnalyzerMarker)>>)
               /\ all_issues[f].value[KeyRaw] = JStr(lastReply[f].text)
               /\ \A g \in DOMAIN all_issues :
                      lastReply[g] = lastReply[f] => all_issues[g] = all_issues[f]
    /\ \A f \in DOMAIN all_reviews :
           (lastReply[f].stage = "review" /\ ~Decoded[lastReply[f].text].ok) =>
               /\ all_reviews[f].type = "dict"
               /\ DOMAIN all_reviews[f].value = {KeyScore, KeyProblems, KeyRaw}
               /\ all_reviews[f].value[KeyScore] = JInt(0)
               /\ all_reviews[f].value[KeyProblems] = JList(<<JStr(ReviewerMarker)>>)
               /\ all_reviews[f].value[KeyRaw] = JStr(lastReply[f].text)
               /\ \A g \in DOMAIN all_reviews :
                      lastReply[g] = lastReply[f] => all_reviews[g] = all_reviews[f]

\* One run in which a path got the invalid reply "x\r\ny" at the Analyzer
\* stage and at the Review stage, and a second path got it at Review too.
C3_Witness ==
    /\ Pipeline
    /\ pc = "done"
    /\ \E f, g \in FileSet :
           /\ f # g
           /\ analysis[f] = AnalyzerFallback(ReplyText)
           /\ lastReply[f] = [stage |-> "review", text |-> ReplyText]
           /\ lastReply[g] = [stage |-> "review", text |-> ReplyText]
           /\ review[f] = ReviewerFallback(ReplyText)
           /\ review[f] = review[g]

\* C4: write-through.  Whenever the last write to a path was made by
\* refactor_files or add_documentation with reply R, reading the path
\* returns exactly R.
C4_ReadReturnsExactlyTheReplyWritten ==
    \A f \in DOMAIN disk :
        written[f].stage \in {"refactor", "document"} =>
            read_file(disk[f]) = written[f].text

\* C5: in one run_pipeline invocation, what the Documentation stage read
\* from a path is the text the Refactor stage wrote to it, and what the
\* Review stage read is the text the Documentation stage wrote.
C5_NextStageReadsWhatThePreviousWrote ==
    Pipeline =>
        \A f \in FileSet :
            /\ lastRead[f].stage = "document" =>
                   /\ lastRead[f].prior.stage = "refactor"
                   /\ lastRead[f].text = lastRead[f].prior.text
            /\ lastRead[f].stage = "review" =>
                   /\ lastRead[f].prior.stage = "document"
                   /\ lastRead[f].text = lastRead[f].prior.text

\* Positions of the log at which the given step is recorded.
Occurrences(stage, file, op) ==
    {p \in 1..Len(log) :
        log[p].op = op /\ log[p].stage = stage /\ log[p].file = file}

\* Number of log entries of the given stage and step.
CountSteps(stage, op) ==
    Cardinality({p \in 1..Len(log) : log[p].stage = stage /\ log[p].op = op})

\* C6 as stated: refactor_files stopped by a path that is missing from the
\* analysis mapping has made no generation call and no write for that path
\* or for any path after it in the list, and their contents are unchanged.
C6_NoCallForAnyPathFromTheMissingOne ==
    err = "KeyError" =>
        /\ pc = "aborted"
        /\ files[idx] \notin DOMAIN analysis
        /\ \A k \in idx..Len(files) :
               /\ Occurrences("refactor", files[k], "generate") = {}
               /\ Occurrences("refactor", files[k], "write") = {}
               /\ disk[files[k]] = stageStart[files[k]]

\* C6, amended: refactor_files stopped by a missing key has read the path
\* and raised KeyError before calling the service or writing; generation
\* calls and writes were made only by the iterations before that position,
\* one each, so a path at or after the position is unwritten and unchanged
\* unless it also occurs earlier in the list.  At no time has refactor_files
\* called the service or written for a path that has no analysis entry.
C6_HaltsBeforeCallAndWriteAtThatPosition ==
    /\ \A p \in 1..Len(log) :
           (log[p].stage = "refactor" /\ log[p].op \in {"generate", "write"}) =>
               log[p].file \in DOMAIN analysis
    /\ err = "KeyError" =>
        /\ pc = "aborted"
        /\ files[idx] \notin DOMAIN analysis
        /\ log[Len(log)] = Event("refactor", files[idx], "read")
        /\ CountSteps("refactor", "generate") = idx - 1
        /\ CountSteps("refactor", "write") = idx - 1
        /\ \A k \in 1..(idx - 1) :
               /\ log[3 * k - 1] = Event("refactor", files[k], "generate")
               /\ log[3 * k] = Event("refactor", files[k], "write")
        /\ \A f \in DOMAIN disk :
               f \notin {files[k] : k \in 1..(idx - 1)} =>
                   /\ disk[f] = stageStart[f]
                   /\ written[f].stage = "none"

\* refactor_files rewrote one path and then met a path without analysis,
\* with one more element after it in the list.
C6_Witness ==
    /\ mode = "refactor"
    /\ err = "KeyError"
    /\ idx = 2
    /\ Len(files) = 3
    /\ files[1] # files[2]
    /\ files[3] # files[1]
    /\ disk[files[1]] # stageStart[files[1]]
    /\ disk[files[3]] = stageStart[files[3]]


\* The stage whose generation call failed: the last step recorded.
FailedStage == log[Len(log)].stage

\* C7: a generation call that fails on the idx-th file aborts run_pipeline.
\* The failed call is the last step ever recorded, no step is enabled, no
\* report is printed; a path whose content differs from what it was when the
\* failing stage began is one of the files before the idx-th, each of which
\* (in a rewriting stage) reads back as that stage's reply; the idx-th and
\* later files are as they were when the stage began.
C7_GenerationFailureAbortsTheRun ==
    (Pipeline /\ err = "APIError") =>
        /\ pc = "aborted"
        /\ printed = <<>>
        /\ log[Len(log)] = Event(FailedStage, files[idx], "generate")
        /\ ~ENABLED Next
        /\ \A f \in DOMAIN disk :
               disk[f] # stageStart[f] => \E k \in 1..(idx - 1) : files[k] = f
        /\ FailedStage \in {"refactor", "document"} =>
               \A k \in 1..(idx - 1) :
                   /\ written[files[k]].stage = FailedStage
                   /\ read_file(disk[files[k]]) = written[files[k]].text
        /\ \A k \in idx..Len(files) : disk[files[k]] = stageStart[files[k]]

\* C7 without the clause on what the rewritten files hold: the abort and
\* the frame of the failing stage.
C7_AbortAndFrame ==
    (Pipeline /\ err = "APIError") =>
        /\ pc = "aborted"
        /\ printed = <<>>
        /\ log[Len(log)] = Event(FailedStage, files[idx], "generate")
        /\ ~ENABLED Next
        /\ \A f \in DOMAIN disk :
               disk[f] # stageStart[f] => \E k \in 1..(idx - 1) : files[k] = f
        /\ FailedStage \in {"refactor", "document"} =>
               \A k \in 1..(idx - 1) : written[files[k]].stage = FailedStage
        /\ \A k \in idx..Len(files) :
               /\ disk[files[k]] = stageStart[files[k]]
               /\ written[files[k]].stage # FailedStage

\* C8: the list run_pipeline works on holds each file of the folder whose
\* name ends in ".py" once and no other file.  At every point of a run the
\* generation calls made so far are, in order, one call per file of the list
\* for Analyze, then one per file for Refactor, for Document and for Review:
\* no call for a file outside the list and none repeated.  At Report all
\* 4 * Len(files) of them have been made: four per enumerated file.
C8_FourCallsPerEnumeratedFile ==
    (Pipeline /\ pc # "enumerate") =>
        LET calls == GenerationCalls
            n == Len(files)
        IN  /\ FileSet = {f \in DOMAIN disk : endswith(f, PySuffix)}
            /\ Cardinality(FileSet) = n
            /\ Len(calls) <= 4 * n
            /\ \A k \in 1..Len(calls) :
                   /\ calls[k].stage = StageOrder[((k - 1) \div n) + 1]
                   /\ calls[k].file = files[((k - 1) % n) + 1]
            /\ pc \in {"report", "done"} => Len(calls) = 4 * n

\* Report reached over a folder with two ".py" files and "a.pyc".
C8_Witness ==
    /\ Pipeline
    /\ pc = "report"
    /\ Len(files) = 2
    /\ \E f \in DOMAIN disk : f \notin FileSet
    /\ Len(GenerationCalls) = 8

IsListOfStrings(v) ==
    /\ v.type = "list"
    /\ \A k \in 1..Len(v.value) : v.value[k].type = "str"

\* A structured review: a numeric score, a list of problem strings and a
\* list of suggestion strings.
IsStructuredReview(entry) ==
    /\ entry.type = "dict"
    /\ {KeyScore, KeyProblems, KeySuggestions} \subseteq DOMAIN entry.value
    /\ entry.value[KeyScore].type = "int"
    /\ IsListOfStrings(entry.value[KeyProblems])
    /\ IsListOfStrings(entry.value[KeySuggestions])

\* The fallback wrapper: score 0, the parsing-error marker, the raw reply.
IsReviewFallback(entry) ==
    /\ entry.type = "dict"
    /\ DOMAIN entry.value = {KeyScore, KeyProblems, KeyRaw}
    /\ entry.value[KeyScore] = JInt(0)
    /\ entry.value[KeyProblems] = JList(<<JStr(ReviewerMarker)>>)
    /\ entry.value[KeyRaw].type = "str"

\* The mappings that hold review reports: the one reviewer_check builds and
\* returns, and the one run_pipeline prints.
ReviewMappings == <<all_reviews>> \o printed

\* C9 as stated: every review report stored, returned or printed is a
\* structured review or the fallback wrapper.
C9_EveryReviewIsStructuredOrFallback ==
    \A m \in 1..Len(ReviewMappings) : \A f \in DOMAIN ReviewMappings[m] :
        \/ IsStructuredReview(ReviewMappings[m][f])
        \/ IsReviewFallback(ReviewMappings[m][f])

\* C9, what reviewer_check does instead: every review report stored,
\* returned or printed is the fallback wrapper (score 0, the parsing-error
\* marker, the reply under raw) when the file's reply is not valid JSON, and
\* otherwise the decoded JSON value of the reply, whatever that value is:
\* a structured review when the reply is one, and any other JSON value
\* (here the number 7) as it stands, unvalidated.
C9_ReviewIsFallbackOrWhateverTheReplyDecodesTo ==
    \A m \in 1..Len(ReviewMappings) : \A f \in DOMAIN ReviewMappings[m] :
        LET entry == ReviewMappings[m][f]
            reply == lastReply[f].text
        IN  /\ lastReply[f].stage = "review"
            /\ IF Decoded[reply].ok
               THEN entry = Decoded[reply].val
               ELSE IsReviewFallback(entry) /\ entry.value[KeyRaw] = JStr(reply)

\* Paths whose stored characters differ between two disk states.
Changed(before, after) ==
    {f \in DOMAIN before \cup DOMAIN after :
        \/ f \notin DOMAIN before
        \/ f \notin DOMAIN after
        \/ before[f] # after[f]}

\* C10: a step changes the disk only if it is a step of refactor_files or
\* add_documentation, and then only the path of the list it is working on;
\* no file is created or removed; in run_pipeline the list is the one
\* enumerated at the start (the ".py" files) and never changes afterwards.
C10_OnlyRefactorAndDocumentWriteAndOnlyListedPaths ==
    [][/\ Changed(disk, disk') # {} =>
              /\ pc \in {"refactor", "document"}
              /\ Changed(disk, disk') = {files[idx]}
              /\ DOMAIN disk' = DOMAIN disk
       /\ pc # "enumerate" => files' = files
       /\ (Pipeline /\ pc # "enumerate") =>
              FileSet = {f \in DOMAIN disk : endswith(f, PySuffix)}]_vars

\* A finished run: both listed files rewritten, "a.pyc" as it was.
C10_Witness ==
    /\ Pipeline
    /\ pc = "done"
    /\ Len(files) = 2
    /\ \A f \in FileSet : written[f].stage = "document" /\ disk[f] # write_file(InitialText(f), linesep)
    /\ \A f \in DOMAIN disk \ FileSet :
           disk[f] = write_file(InitialText(f), linesep) /\ written[f].stage = "none"

=============================================================================
